---- MODULE Spec2Model ----
(***************************************************************************)
(* Model of scripts/doc-generator.js: the category classifier              *)
(* (getDocumentationFolder), the per-file generator (documentFile), the    *)
(* batch orchestrator (documentMultipleFiles), the index rebuilder         *)
(* (generateDocumentationIndex) and the command line driver (main).        *)
(*                                                                         *)
(* A path is a sequence of atoms.  An atom is a piece of the path string   *)
(* that no pattern of the program has to split: a separator ("/" or "\"),  *)
(* a word ("not-found" is one), or an extension (".tsx").  The path       *)
(* string is the concatenation of its atoms, so "homepage.tsx" is          *)
(* <<"home", "page", ".tsx">> and a regular expression over the string is  *)
(* a condition over neighbouring atoms.                                    *)
(***************************************************************************)
EXTENDS Integers, Sequences, FiniteSets, TLC

VARIABLES
    fs,          \* the filesystem: the existing inputs and the docs/ tree
    pc,          \* where the run is: "idle", "loop", "single", "report", "done",
                 \* "returned", "exited"
    mode,        \* how the run was started: "none", "api" (documentMultipleFiles
                 \* called by an importer), "batch" (main --all / --dir), "single"
    files,       \* the input paths of the current run, in input order
    force,       \* forceMode of the current run
    results,     \* the results array of the current run
    obs,         \* one observation per documentFile call of the current run
    indexCalls,  \* how often generateDocumentationIndex was invoked in the current run
    index,       \* the docs/README.md the current run wrote (NoIndex: it wrote none)
    exitCode,    \* process exit status of the current run
    prev,        \* during a run that repeats the one before it: whether both are
                 \* unforced calls of documentMultipleFiles (rerun), and the
                 \* inputs that failed the first time (failed)
    path,        \* classification: the path under classification
    folder,      \* classification: the category returned for it
    perm         \* batch orders: the two orders of one batch and their outcomes

vars == <<fs, pc, mode, files, force, results, obs, indexCalls, index, exitCode,
          prev, path, folder, perm>>

----------------------------------------------------------------------------
(* Bounds                                                                  *)

\* longest batch handed to documentMultipleFiles
MaxBatch == 2
\* deepest directory nesting of a classified path
MaxDirs == 2
\* how many of the project's input paths may be missing on disk
MaxMissing == 1

----------------------------------------------------------------------------
(* Strings as atom sequences                                               *)

SepAtoms == {"/", "\\"}
ExtAtoms == {".ts", ".tsx", ".js", ".jsx", ".md"}

\* String.prototype.toLowerCase, atom by atom
LowerAtom(a) ==
    CASE a = "Components" -> "components"
      [] a = "COMPONENTS" -> "components"
      [] a = "Hooks"      -> "hooks"
      [] a = "App"        -> "app"
      [] a = "Card"       -> "card"
      [] a = "Button"     -> "button"
      [] a = "Badge"      -> "badge"
      [] a = "Thing"      -> "thing"
      [] a = "useAuth"    -> "useauth"
      [] a = "Page"       -> "page"
      [] OTHER            -> a

\* filePath.replace(/\\/g, '/').toLowerCase()
NormalizePath(p) ==
    [i \in 1..Len(p) |-> IF p[i] = "\\" THEN "/" ELSE LowerAtom(p[i])]

\* the atoms s[a..b] (empty when a > b)
Slice(s, a, b) == [i \in 1..(b - a + 1) |-> s[a + i - 1]]

\* /\/<name>\// : the word between two slashes, anywhere in the string
HasSlashedSegment(n, name) ==
    \E i \in 1..(Len(n) - 2) :
        n[i] = "/" /\ n[i + 1] = name /\ n[i + 2] = "/"

\* /\/app\/.*<name>\.tsx?$/ : "/app/" somewhere, and the string ends in
\* <name>.ts or <name>.tsx (whatever stands before <name>)
MatchesAppFile(n, name) ==
    /\ Len(n) >= 2
    /\ n[Len(n)] \in {".ts", ".tsx"}
    /\ n[Len(n) - 1] = name
    /\ \E i \in 1..(Len(n) - 4) :
           n[i] = "/" /\ n[i + 1] = "app" /\ n[i + 2] = "/"

\* folderMappings, in order: <<kind, word, folder>>
folderMappings ==
    << <<"seg", "components", "components">>,
       <<"seg", "api",        "api">>,
       <<"seg", "hooks",      "hooks">>,
       <<"seg", "utils",      "utils">>,
       <<"seg", "types",      "types">>,
       <<"seg", "lib",        "lib">>,
       <<"seg", "services",   "services">>,
       <<"seg", "middleware", "middleware">>,
       <<"seg", "pages",      "pages">>,
       <<"app", "page",       "pages">>,
       <<"app", "layout",     "layouts">>,
       <<"app", "loading",    "loading">>,
       <<"app", "error",      "error">>,
       <<"app", "not-found",  "error">> >>

\* mapping.pattern.test(normalizedPath)
PatternTest(m, n) ==
    IF m[1] = "seg" THEN HasSlashedSegment(n, m[2]) ELSE MatchesAppFile(n, m[2])

\* normalizedPath.split('/'): the pieces between slashes, each a sequence of atoms
SlashPositions(n) == {i \in 1..Len(n) : n[i] = "/"}

\* the piece that ends right before position e (a slash position or Len + 1)
PieceBefore(n, e) ==
    LET before == {i \in SlashPositions(n) : i < e}
        start  == IF before = {} THEN 1
                  ELSE (CHOOSE i \in before : \A j \in before : j <= i) + 1
    IN  Slice(n, start, e - 1)

\* pathParts[pathParts.length - 2], or <<>> when split gives a single part
ParentFolder(n) ==
    IF SlashPositions(n) = {} THEN <<>>
    ELSE PieceBefore(n, CHOOSE i \in SlashPositions(n) :
                            \A j \in SlashPositions(n) : j <= i)

\* the first mapping whose pattern matches, 0 when none does
FirstMatch(n) ==
    LET hits == {k \in 1..Len(folderMappings) : PatternTest(folderMappings[k], n)}
    IN  IF hits = {} THEN 0 ELSE CHOOSE k \in hits : \A j \in hits : k <= j

\* getDocumentationFolder(filePath): the category, a sequence of atoms
getDocumentationFolder(filePath) ==
    LET n == NormalizePath(filePath)
        k == FirstMatch(n)
        parentFolder == ParentFolder(n)
    IN  IF k > 0 THEN <<folderMappings[k][3]>>
        ELSE IF /\ SlashPositions(n) # {}
                /\ parentFolder # <<>>
                /\ parentFolder # <<"src">>
                /\ parentFolder # <<"app">>
             THEN parentFolder
             ELSE <<"general">>

\* path.basename(filePath, path.extname(filePath)) on a '/'-separated path
BaseName(filePath) ==
    LET base == PieceBefore(filePath, Len(filePath) + 1)
    IN  IF Len(base) >= 2 /\ base[Len(base)] \in ExtAtoms
        THEN Slice(base, 1, Len(base) - 1)
        ELSE base

----------------------------------------------------------------------------
(* The files of the project and the filesystem                             *)

FileA == "src/components/Card/index.tsx"
FileB == "src/components/Button/index.tsx"
FileC == "src/hooks/useAuth.ts"
FileD == "src/components/Badge.tsx"

\* the input paths the runs of main and of an importer are given
Files == {FileA, FileB, FileC}
\* the input paths of the batches whose orders are compared
AllFiles == Files \cup {FileD}

\* the atoms of each of these path strings
AtomsOf(filePath) ==
    CASE filePath = FileA ->
            <<"src", "/", "components", "/", "Card", "/", "index", ".tsx">>
      [] filePath = FileB ->
            <<"src", "/", "components", "/", "Button", "/", "index", ".tsx">>
      [] filePath = FileC ->
            <<"src", "/", "hooks", "/", "useAuth", ".ts">>
      [] filePath = FileD ->
            <<"src", "/", "components", "/", "Badge", ".tsx">>

\* docs/<category>/<basename>.md, as the pair of its category and basename
DocPathTable ==
    [f \in AllFiles |-> [cat  |-> getDocumentationFolder(AtomsOf(f)),
                         base |-> BaseName(AtomsOf(f))]]

DocPathOf(filePath) == DocPathTable[filePath]

DocPaths == {DocPathTable[f] : f \in AllFiles}
Categories == {d.cat : d \in DocPaths}

\* what a markdown file under docs/ holds: nothing (no such file), text that
\* was there before the first run, the collaborator's text for a source file,
\* or the remains of a write that failed half way
Absent == [state |-> "absent", src |-> ""]
Old == [state |-> "old", src |-> ""]
Partial == [state |-> "partial", src |-> ""]
Generated(filePath) == [state |-> "generated", src |-> filePath]

NoIndex == [written |-> FALSE, totalFiles |-> 0, categories |-> 0, sections |-> {}]

\* fs.existsSync(docPath)
DocExists(fsv, dp) == fsv.docs[dp].state # "absent"

\* a filesystem the program can meet: a file lies in a directory, a directory
\* in docs/
FsOk(fsv) ==
    /\ \A dp \in DocPaths : DocExists(fsv, dp) => dp.cat \in fsv.dirs
    /\ fsv.dirs # {} => fsv.root

\* the filesystems a first run can meet, for runs over the paths in S: of S,
\* at most MaxMissing are missing; a markdown file docs/ holds was written
\* before (Old); docs/ holds nothing for the other paths
InitialFsFor(S) ==
    {fsv \in [inputs : {I \in SUBSET S : Cardinality(S \ I) <= MaxMissing},
              root   : BOOLEAN,
              dirs   : SUBSET {DocPathOf(f).cat : f \in S},
              docs   : [DocPaths -> {Absent, Old}]] :
        /\ FsOk(fsv)
        /\ \A dp \in DocPaths \ {DocPathOf(f) : f \in S} : fsv.docs[dp] = Absent}

InitialFs == InitialFsFor(Files)

----------------------------------------------------------------------------
(* documentFile                                                            *)

\* what the world does to one documentFile call: whether fs.mkdirSync and
\* callClaude succeed, and how fs.writeFileSync ends
\* ("ok", "open": it fails opening the file, "partial": it fails after the
\* file was created or truncated)
EnvOk == [mkdir |-> TRUE, collab |-> TRUE, write |-> "ok"]
Envs ==
    { EnvOk,
      [EnvOk EXCEPT !.mkdir = FALSE],
      [EnvOk EXCEPT !.collab = FALSE],
      [EnvOk EXCEPT !.write = "open"],
      [EnvOk EXCEPT !.write = "partial"] }

\* the skip test of a variant that ignores the existing output
SkipNever(frc, outExists) == FALSE

\* the skip test with the force flag the wrong way round
SkipWhenForced(frc, outExists) == frc /\ outExists

\* if (!force && fs.existsSync(docPath))
ShouldSkip(frc, outExists) == ~frc /\ outExists

\* what one documentFile call did: the filesystem it leaves (fs) and the
\* observation of the call (ob): how it ended ("generated", "skipped": the
\* two returns; "failed": the rethrown error), what it met, what it did on
\* the way (read the source, called the collaborator, wrote into the output
\* file) and whether any file under docs/ differs after it
Outcome(fsv, filePath, kind, err, rd, cl, wr, fsAfter) ==
    [fs |-> fsAfter,
     ob |-> [filePath    |-> filePath,
             docPath     |-> DocPathOf(filePath),
             outcome     |-> kind,
             error       |-> err,
             inExisted   |-> filePath \in fsv.inputs,
             outExisted  |-> DocExists(fsv, DocPathOf(filePath)),
             read        |-> rd,
             called      |-> cl,
             wrote       |-> wr,
             changed     |-> fsAfter.docs # fsv.docs]]

\* documentFile(filePath, force) on filesystem fsv in a world env
documentFile(fsv, filePath, frc, env) ==
    LET dp  == DocPathOf(filePath)
        fs1 == [fsv EXCEPT !.root = TRUE, !.dirs = @ \cup {dp.cat}]
    IN  IF filePath \notin fsv.inputs
        THEN Outcome(fsv, filePath, "failed", "Fichier non trouve",
                     FALSE, FALSE, FALSE, fsv)
        ELSE IF dp.cat \notin fsv.dirs /\ ~env.mkdir
        THEN Outcome(fsv, filePath, "failed", "mkdir failed",
                     FALSE, FALSE, FALSE, fsv)
        ELSE IF ShouldSkip(frc, DocExists(fs1, dp))
        THEN Outcome(fsv, filePath, "skipped", "", FALSE, FALSE, FALSE, fs1)
        ELSE IF ~env.collab
        THEN Outcome(fsv, filePath, "failed", "Erreur API",
                     TRUE, TRUE, FALSE, fs1)
        ELSE IF env.write = "open"
        THEN Outcome(fsv, filePath, "failed", "write failed",
                     TRUE, TRUE, FALSE, fs1)
        ELSE IF env.write = "partial"
        THEN Outcome(fsv, filePath, "failed", "write failed",
                     TRUE, TRUE, TRUE, [fs1 EXCEPT !.docs[dp] = Partial])
        ELSE Outcome(fsv, filePath, "generated", "",
                     TRUE, TRUE, TRUE,
                     [fs1 EXCEPT !.docs[dp] = Generated(filePath)])

----------------------------------------------------------------------------
(* generateDocumentationIndex                                              *)

\* fs.readdirSync(docsDir, {withFileTypes}).filter(isDirectory): README.md,
\* the only file the program puts into docs/ itself, is no directory
IndexCategories(fsv) == fsv.dirs

\* fs.readdirSync(categoryPath).filter(file => file.endsWith('.md'))
MarkdownFiles(fsv, category) ==
    {dp \in DocPaths : dp.cat = category /\ DocExists(fsv, dp)}

\* categories.reduce((sum, category) => sum + files.length, 0)
RECURSIVE SumFiles(_, _)
SumFiles(fsv, cats) ==
    IF cats = {} THEN 0
    ELSE LET c == CHOOSE x \in cats : TRUE
         IN  Cardinality(MarkdownFiles(fsv, c)) + SumFiles(fsv, cats \ {c})

\* the index text: its sections (one per category with files.length > 0, each
\* with its link lines) and the two numbers of its statistics block
IndexDocument(fsv) ==
    [written    |-> TRUE,
     totalFiles |-> SumFiles(fsv, IndexCategories(fsv)),
     categories |-> Cardinality(IndexCategories(fsv)),
     sections   |-> {[category |-> c, links |-> {dp.base : dp \in MarkdownFiles(fsv, c)}] :
                       c \in {x \in IndexCategories(fsv) : MarkdownFiles(fsv, x) # {}}}]

\* generateDocumentationIndex(): the docs/README.md it writes, none without docs/
generateDocumentationIndex(fsv) ==
    IF ~fsv.root THEN NoIndex ELSE IndexDocument(fsv)

----------------------------------------------------------------------------
(* documentMultipleFiles and main                                          *)

NoDocPath == [cat |-> <<>>, base |-> <<>>]

\* { filePath, docPath: result.docPath, success: true, skipped: ... }
SuccessResult(o) ==
    [filePath |-> o.filePath, docPath |-> o.docPath, error |-> "",
     success |-> TRUE, skipped |-> (o.outcome = "skipped")]

\* { filePath, error: error.message, success: false, skipped: false }
FailedResult(o) ==
    [filePath |-> o.filePath, docPath |-> NoDocPath, error |-> o.error,
     success |-> FALSE, skipped |-> FALSE]

\* results.push(...) of the loop body: the try branch or the catch branch
PushResult(res, o) ==
    Append(res, IF o.outcome = "failed" THEN FailedResult(o) ELSE SuccessResult(o))

\* the sequences over S of length at most n
SeqsUpTo(S, n) == UNION {[1..k -> S] : k \in 0..n}

\* the lists of input paths a caller may pass
InputLists == SeqsUpTo(Files, MaxBatch)

NoDuplicates(fl) == \A i, j \in DOMAIN fl : fl[i] = fl[j] => i = j

\* the files of obs whose documentFile call threw
FailedFiles(ob) == {ob[k].filePath : k \in {i \in DOMAIN ob : ob[i].outcome = "failed"}}

\* the elements of a sequence
Range(sq) == {sq[k] : k \in DOMAIN sq}

\* a run that repeats nothing
NoPrev == [rerun |-> FALSE, failed |-> {}]

\* where a run goes once documentMultipleFiles has pushed n results: on with
\* the for loop, or (return results) back to the importer or to main's report
AfterLoop(md, n, total) ==
    IF n < total THEN "loop" ELSE IF md = "api" THEN "returned" ELSE "report"

StartRun(newMode, newInputs, newForce, newPc) ==
    /\ pc = "idle"
    /\ mode' = newMode
    /\ files' = newInputs
    /\ force' = newForce
    /\ results' = <<>>
    /\ obs' = <<>>
    /\ indexCalls' = 0
    /\ index' = NoIndex
    /\ exitCode' = 0
    /\ prev' = NoPrev
    /\ pc' = newPc
    /\ UNCHANGED <<fs, path, folder, perm>>

\* an importer calls the exported documentMultipleFiles(filePaths, force)
CallDocumentMultipleFiles ==
    \E fl \in InputLists, fr \in BOOLEAN :
        StartRun("api", fl, fr, AfterLoop("api", 0, Len(fl)))

\* main with --all or --dir: findFilesToDocument lists files it found on
\* disk, each once; documentMultipleFiles(files, forceMode)
MainBatch ==
    \E fl \in InputLists, fr \in BOOLEAN :
        /\ Range(fl) \subseteq fs.inputs
        /\ NoDuplicates(fl)
        /\ StartRun("batch", fl, fr, AfterLoop("batch", 0, Len(fl)))

\* the run is over and the same invocation is made again, now without
\* --force: main on the same arguments, or documentMultipleFiles on the same
\* list.  The new run knows which inputs failed the first time
RunAgain ==
    /\ pc \in {"returned", "done", "exited"}
    /\ prev' = [rerun |-> mode # "single" /\ ~force, failed |-> FailedFiles(obs)]
    /\ force' = FALSE
    /\ results' = <<>>
    /\ obs' = <<>>
    /\ indexCalls' = 0
    /\ index' = NoIndex
    /\ exitCode' = 0
    /\ pc' = IF mode = "single" THEN "single" ELSE AfterLoop(mode, 0, Len(files))
    /\ UNCHANGED <<fs, mode, files, path, folder, perm>>

\* main with a positional file path
MainSingle ==
    \E f \in Files, fr \in BOOLEAN :
        StartRun("single", <<f>>, fr, "single")

\* a loop body that gives up on the first failure
LoopBodyAborting ==
    /\ pc = "loop"
    /\ \E env \in Envs :
        LET o == documentFile(fs, files[Len(obs) + 1], force, env)
        IN  /\ fs' = o.fs
            /\ obs' = Append(obs, o.ob)
            /\ results' = PushResult(results, o.ob)
            /\ pc' = IF o.ob.outcome = "failed"
                     THEN AfterLoop(mode, Len(files), Len(files))
                     ELSE AfterLoop(mode, Len(obs) + 1, Len(files))
    /\ UNCHANGED <<mode, files, force, indexCalls, index, exitCode, prev,
                   path, folder, perm>>

\* a loop body that puts each result in front of the earlier ones
LoopBodyPrepending ==
    /\ pc = "loop"
    /\ \E env \in Envs :
        LET o == documentFile(fs, files[Len(obs) + 1], force, env)
        IN  /\ fs' = o.fs
            /\ obs' = Append(obs, o.ob)
            /\ results' = PushResult(<<>>, o.ob) \o results
            /\ pc' = AfterLoop(mode, Len(obs) + 1, Len(files))
    /\ UNCHANGED <<mode, files, force, indexCalls, index, exitCode, prev,
                   path, folder, perm>>

\* one turn of documentMultipleFiles' for loop: documentFile on the next
\* path, its result or its error pushed; after the last path, return results
LoopBody ==
    /\ pc = "loop"
    /\ \E env \in Envs :
        LET o == documentFile(fs, files[Len(obs) + 1], force, env)
        IN  /\ fs' = o.fs
            /\ obs' = Append(obs, o.ob)
            /\ results' = PushResult(results, o.ob)
            /\ pc' = AfterLoop(mode, Len(obs) + 1, Len(files))
    /\ UNCHANGED <<mode, files, force, indexCalls, index, exitCode, prev,
                   path, folder, perm>>

\* main's single-file branch: documentFile's error reaches main's catch,
\* which prints it and calls process.exit(1)
SingleFile ==
    /\ pc = "single"
    /\ \E env \in Envs :
        LET o == documentFile(fs, files[1], force, env)
        IN  /\ fs' = o.fs
            /\ obs' = Append(obs, o.ob)
            /\ IF o.ob.outcome = "failed"
               THEN /\ results' = results
                    /\ exitCode' = 1
                    /\ pc' = "exited"
               ELSE /\ results' = <<SuccessResult(o.ob)>>
                    /\ exitCode' = exitCode
                    /\ pc' = "report"
    /\ UNCHANGED <<mode, files, force, indexCalls, index, prev,
                   path, folder, perm>>

successful(res) == {k \in DOMAIN res : res[k].success /\ ~res[k].skipped}
skipped(res) == {k \in DOMAIN res : res[k].success /\ res[k].skipped}
failed(res) == {k \in DOMAIN res : ~res[k].success}

\* a rebuild test that looks at the generated results only
RebuildIfGenerated(res) == Cardinality(successful(res)) > 0

\* if (successful.length > 0 || (successful.length === 0 && skipped.length > 0))
ShouldRebuildIndex(res) ==
    \/ Cardinality(successful(res)) > 0
    \/ (Cardinality(successful(res)) = 0 /\ Cardinality(skipped(res)) > 0)

\* main's report: the three partitions are printed, the index is rebuilt
Report ==
    /\ pc = "report"
    /\ IF ShouldRebuildIndex(results)
       THEN /\ index' = generateDocumentationIndex(fs)
            /\ indexCalls' = indexCalls + 1
       ELSE /\ index' = index
            /\ indexCalls' = indexCalls
    /\ pc' = "done"
    /\ UNCHANGED <<fs, mode, files, force, results, obs, exitCode, prev,
                   path, folder, perm>>

\* the run is over: main has returned or the process has exited, the
\* importer has its results.  The filesystem stays
EndRun ==
    /\ pc \in {"done", "returned", "exited"}
    /\ pc' = "idle"
    /\ mode' = "none"
    /\ files' = <<>>
    /\ force' = FALSE
    /\ results' = <<>>
    /\ obs' = <<>>
    /\ indexCalls' = 0
    /\ index' = NoIndex
    /\ exitCode' = 0
    /\ prev' = NoPrev
    /\ UNCHANGED <<fs, path, folder, perm>>

NoPerm == [stage |-> "none"]

Init ==
    /\ fs \in InitialFs
    /\ pc = "idle"
    /\ mode = "none"
    /\ files = <<>>
    /\ force = FALSE
    /\ results = <<>>
    /\ obs = <<>>
    /\ indexCalls = 0
    /\ index = NoIndex
    /\ exitCode = 0
    /\ prev = NoPrev
    /\ path = <<>>
    /\ folder = <<>>
    /\ perm = NoPerm

Next ==
    \/ CallDocumentMultipleFiles
    \/ MainBatch
    \/ MainSingle
    \/ RunAgain
    \/ LoopBody
    \/ SingleFile
    \/ Report
    \/ EndRun

Spec == Init /\ [][Next]_vars

----------------------------------------------------------------------------
(* The classifier on its own: a path is drawn, getDocumentationFolder is    *)
(* applied to it                                                           *)

\* directory names and file names the classified paths are made of
DirSegs ==
    { <<"components">>, <<"Components">>, <<"COMPONENTS">>, <<"hooks">>,
      <<"src">>, <<"app">>, <<"App">>, <<"forms">> }

FileSegs ==
    { <<"Button", ".tsx">>, <<"page", ".tsx">>, <<"page", ".js">>,
      <<"home", "page", ".tsx">>, <<"layout", ".ts">>, <<"components">> }

\* dirs[1] sep dirs[2] sep ... sep file
RECURSIVE JoinPath(_, _, _)
JoinPath(dirs, file, sep) ==
    IF dirs = <<>> THEN file
    ELSE Head(dirs) \o <<sep>> \o JoinPath(Tail(dirs), file, sep)

\* relative and absolute paths, with either separator
ClassifiedPaths ==
    { (IF abs THEN <<sep>> ELSE <<>>) \o JoinPath(dirs, file, sep) :
        dirs \in SeqsUpTo(DirSegs, MaxDirs), file \in FileSegs,
        sep \in SepAtoms, abs \in BOOLEAN }

\* a filesystem with nothing in it, for the specifications that use none
EmptyFs ==
    [inputs |-> {}, root |-> FALSE, dirs |-> {}, docs |-> [dp \in DocPaths |-> Absent]]

InitClassify ==
    /\ path \in ClassifiedPaths
    /\ folder = <<>>
    /\ fs = EmptyFs
    /\ pc = "classify"
    /\ mode = "none"
    /\ files = <<>>
    /\ force = FALSE
    /\ results = <<>>
    /\ obs = <<>>
    /\ indexCalls = 0
    /\ index = NoIndex
    /\ exitCode = 0
    /\ prev = NoPrev
    /\ perm = NoPerm

\* const docCategory = getDocumentationFolder(filePath)
Classify ==
    /\ pc = "classify"
    /\ folder = <<>>
    /\ folder' = getDocumentationFolder(path)
    /\ UNCHANGED <<fs, pc, mode, files, force, results, obs, indexCalls, index,
                   exitCode, prev, path, perm>>

SpecClassify == InitClassify /\ [][Classify]_vars

----------------------------------------------------------------------------
(* Two orders of one batch: documentMultipleFiles on a list and on a        *)
(* permutation of it, from the same filesystem, with the same force flag,   *)
(* in the same world.  The list is in walk order; two permutations agree    *)
(* with each other wherever each agrees with the list                       *)

\* a world that treats a path the same way whenever it meets it: the
\* categories whose directory cannot be created, and per input whether the
\* collaborator fails on it ("collab"), or the write of its text fails half
\* way ("partial")
Worlds(S) ==
    [mkdirFails : SUBSET {DocPathOf(f).cat : f \in S},
     fault      : [S -> {"ok", "collab", "partial"}]]

EnvIn(world, filePath) ==
    [mkdir  |-> DocPathOf(filePath).cat \notin world.mkdirFails,
     collab |-> world.fault[filePath] # "collab",
     write  |-> IF world.fault[filePath] = "partial" THEN "partial" ELSE "ok"]

\* a batch that stops at its first failure
RECURSIVE documentMultipleFilesAborting(_, _, _, _, _)
documentMultipleFilesAborting(fsv, res, filePaths, frc, world) ==
    IF filePaths = <<>> THEN [fs |-> fsv, results |-> res]
    ELSE LET o == documentFile(fsv, Head(filePaths), frc,
                               EnvIn(world, Head(filePaths)))
         IN  IF o.ob.outcome = "failed"
             THEN [fs |-> o.fs, results |-> PushResult(res, o.ob)]
             ELSE documentMultipleFilesAborting(o.fs, PushResult(res, o.ob),
                                                Tail(filePaths), frc, world)

\* documentMultipleFiles(filePaths, force) as a whole: the results array and
\* the filesystem it leaves
RECURSIVE documentMultipleFiles(_, _, _, _, _)
documentMultipleFiles(fsv, res, filePaths, frc, world) ==
    IF filePaths = <<>> THEN [fs |-> fsv, results |-> res]
    ELSE LET o == documentFile(fsv, Head(filePaths), frc,
                               EnvIn(world, Head(filePaths)))
         IN  documentMultipleFiles(o.fs, PushResult(res, o.ob),
                                   Tail(filePaths), frc, world)

\* the orders of the elements of a set
Orders(S) == {fl \in [1..Cardinality(S) -> S] : Range(fl) = S}

\* the project's files in the order the directory walk finds them, and the
\* list of those of them that are in S
WalkOrder == <<FileA, FileB, FileC, FileD>>
ListOf(S) == SelectSeq(WalkOrder, LAMBDA f : f \in S)

NotRun == [fs |-> EmptyFs, results |-> <<>>]

InitPerm ==
    /\ \E S \in {T \in SUBSET AllFiles : Cardinality(T) <= MaxBatch} :
       \E permuted \in Orders(S), fs0 \in InitialFsFor(S),
          frc \in BOOLEAN, world \in Worlds(S) :
           perm = [stage |-> "start", given |-> ListOf(S), permuted |-> permuted,
                   fs0 |-> fs0, force |-> frc, world |-> world,
                   first |-> NotRun, second |-> NotRun]
    /\ pc = "orders"
    /\ fs = EmptyFs
    /\ mode = "none"
    /\ files = <<>>
    /\ force = FALSE
    /\ results = <<>>
    /\ obs = <<>>
    /\ indexCalls = 0
    /\ index = NoIndex
    /\ exitCode = 0
    /\ prev = NoPrev
    /\ path = <<>>
    /\ folder = <<>>

\* the batch in the given order
RunGiven ==
    /\ pc = "orders"
    /\ perm.stage = "start"
    /\ perm' = [perm EXCEPT
                  !.stage = "given",
                  !.first = documentMultipleFiles(perm.fs0, <<>>, perm.given,
                                                  perm.force, perm.world)]
    /\ UNCHANGED <<fs, pc, mode, files, force, results, obs, indexCalls, index,
                   exitCode, prev, path, folder>>

\* the same batch, from the same filesystem, in the permuted order
RunPermuted ==
    /\ pc = "orders"
    /\ perm.stage = "given"
    /\ perm' = [perm EXCEPT
                  !.stage = "both",
                  !.second = documentMultipleFiles(perm.fs0, <<>>, perm.permuted,
                                                   perm.force, perm.world)]
    /\ UNCHANGED <<fs, pc, mode, files, force, results, obs, indexCalls, index,
                   exitCode, prev, path, folder>>

SpecPerm == InitPerm /\ [][RunGiven \/ RunPermuted]_vars

----------------------------------------------------------------------------
(* Properties                                                              *)

\* documentMultipleFiles has gone through its whole list
LoopDone == mode \in {"api", "batch"} /\ pc \in {"returned", "report", "done"}

IsSkip(r) == r.success /\ r.skipped
IsGenerated(r) == r.success /\ ~r.skipped
IsFailed(r) == ~r.success

C2_FailureIsolation ==
    mode \in {"api", "batch"} =>
        /\ Len(results) = Len(obs)
        /\ Len(obs) <= Len(files)
        /\ \A k \in DOMAIN obs :
              /\ obs[k].filePath = files[k]
              /\ obs[k].outcome = "failed" =>
                    /\ k \in DOMAIN results
                    /\ IsFailed(results[k])
                    /\ results[k].filePath = files[k]
                    /\ results[k].error = obs[k].error
                    /\ results[k].error \in {"Fichier non trouve", "mkdir failed",
                                             "Erreur API", "write failed"}
        /\ pc = "loop" => Len(obs) < Len(files)
        /\ LoopDone => Len(results) = Len(files)

\* the first file of a batch failed, the second was processed and succeeded
C2_Witness ==
    /\ LoopDone
    /\ Len(results) = 2
    /\ IsFailed(results[1])
    /\ results[2].success
    /\ obs[2].called

\* C3, as claimed: whenever force is false and the output file exists when
\* the file is dispatched, documentFile returns a skip with that output path
\* and neither reads the source, nor calls the collaborator, nor writes.
C3_SkipWheneverOutputExists ==
    \A k \in DOMAIN obs :
        (~force /\ obs[k].outExisted) =>
            /\ obs[k].outcome = "skipped"
            /\ obs[k].docPath = DocPathOf(obs[k].filePath)
            /\ ~obs[k].read /\ ~obs[k].called /\ ~obs[k].wrote /\ ~obs[k].changed

\* C3, amended: whenever force is false, the input path exists and the output
\* file exists when the file is dispatched, documentFile returns a skip with
\* that output path; and whether the input exists or not, it then neither
\* reads the source, nor calls the collaborator, nor writes: docs/ is
\* unchanged.  (With the input missing the result is the not-found failure.)
C3_SkipWhenInputAndOutputExist ==
    \A k \in DOMAIN obs :
        (~force /\ obs[k].outExisted) =>
            /\ obs[k].inExisted =>
                  /\ obs[k].outcome = "skipped"
                  /\ obs[k].docPath = DocPathOf(obs[k].filePath)
            /\ ~obs[k].inExisted =>
                  /\ obs[k].outcome = "failed"
                  /\ obs[k].error = "Fichier non trouve"
            /\ ~obs[k].read /\ ~obs[k].called /\ ~obs[k].wrote /\ ~obs[k].changed

\* an unforced call on an existing input with an existing output was skipped
C3_Witness ==
    \E k \in DOMAIN obs :
        /\ ~force /\ obs[k].outExisted /\ obs[k].inExisted
        /\ obs[k].outcome = "skipped"
        /\ fs.docs[obs[k].docPath] = Old

\* C4: documentMultipleFiles returns one result per input, the k-th result
\* is about the k-th input (the k-th documentFile call is on the k-th path),
\* and every result is exactly one of generated (success, not skipped),
\* skipped (success, skipped) and failed (no success, an error message).
C4_ReportShape ==
    mode \in {"api", "batch"} =>
        /\ Len(results) = Len(obs)
        /\ Len(results) <= Len(files)
        /\ LoopDone => Len(results) = Len(files)
        /\ \A k \in DOMAIN results :
              /\ results[k].filePath = files[k]
              /\ obs[k].filePath = files[k]
              /\ \/ /\ IsGenerated(results[k])
                    /\ obs[k].outcome = "generated"
                    /\ results[k].error = ""
                    /\ results[k].docPath = DocPathOf(files[k])
                 \/ /\ IsSkip(results[k])
                    /\ obs[k].outcome = "skipped"
                    /\ results[k].error = ""
                    /\ results[k].docPath = DocPathOf(files[k])
                 \/ /\ IsFailed(results[k])
                    /\ ~results[k].skipped
                    /\ obs[k].outcome = "failed"
                    /\ results[k].error # ""

\* a finished batch of two different inputs, the first generated, the second
\* skipped
C4_Witness ==
    /\ LoopDone
    /\ Len(results) = 2
    /\ files[1] # files[2]
    /\ IsGenerated(results[1])
    /\ IsSkip(results[2])

\* a directory segment named "components" in the path as given: between
\* separators, or first in a relative path, in any casing
HasComponentsSegment(p) ==
    \E i \in 1..(Len(p) - 1) :
        /\ LowerAtom(p[i]) = "components"
        /\ p[i + 1] \in SepAtoms
        /\ (i = 1 \/ p[i - 1] \in SepAtoms)

\* C5, as claimed: for every path with a directory segment named
\* "components", in any casing, with either separator, wherever the segment
\* stands (first segment of a relative path included),
\* getDocumentationFolder returns "components".
C5_ComponentsSegment ==
    (folder # <<>> /\ HasComponentsSegment(path)) => folder = <<"components">>

\* C6: once main has processed all its inputs and reported,
\* generateDocumentationIndex has been invoked if and only if some result is
\* generated or skipped, and then once; it is not invoked when the results
\* are empty or all failures, nor before the report, nor in a run that exited.
C6_IndexRebuildTrigger ==
    /\ pc = "done" =>
          /\ Len(obs) = Len(files)
          /\ indexCalls = (IF \E k \in DOMAIN results : results[k].success THEN 1 ELSE 0)
          /\ index.written => indexCalls = 1
    /\ pc \in {"loop", "single", "report", "exited"} =>
          indexCalls = 0 /\ ~index.written

\* a run whose results are skips only, none generated, rebuilt the index
C6_Witness ==
    /\ pc = "done"
    /\ indexCalls = 1
    /\ index.written
    /\ results # <<>>
    /\ \A k \in DOMAIN results : IsSkip(results[k])

\* C7, as claimed: a failure of documentFile never ends the run: in every
\* mode it becomes a failed entry of the report, and the exit status stays 0.
C7_FailuresAreDowngraded ==
    pc \in {"report", "done", "returned", "exited"} =>
        /\ exitCode = 0
        /\ pc # "exited"
        /\ \A k \in DOMAIN obs :
              obs[k].outcome = "failed" =>
                  /\ k \in DOMAIN results
                  /\ IsFailed(results[k])
                  /\ results[k].filePath = obs[k].filePath

\* the first call of documentFile on obs[k].filePath in the current run
FirstCallOn(k) == \A j \in 1..(k - 1) : obs[j].filePath # obs[k].filePath

\* C8, as claimed: when a run is repeated without force, a file that failed
\* the first time and whose input exists is not skipped: it is attempted
\* again.
C8_FailedFilesAreRetried ==
    \A k \in DOMAIN obs :
        (~force /\ obs[k].filePath \in prev.failed /\ obs[k].inExisted /\ FirstCallOn(k))
            => obs[k].outcome # "skipped"

\* C8, amended: when a run is repeated without force, a file that failed
\* the first time is skipped if and only if its input exists and its output
\* path holds a file when it is dispatched (one that was there before the
\* failed attempt, that another input of the same output path wrote, or that
\* a write failing half way left); with the input present, no output and the
\* directory creatable, the source is read and the collaborator called again.
\* A failed attempt changes docs/ only by a write that failed half way.
C8_FailedFilesAreRetriedUnlessOutputExists ==
    /\ \A k \in DOMAIN obs :
          (~force /\ obs[k].filePath \in prev.failed) =>
              /\ obs[k].outcome = "skipped" <=> (obs[k].inExisted /\ obs[k].outExisted)
              /\ (obs[k].inExisted /\ ~obs[k].outExisted /\ obs[k].error # "mkdir failed")
                    => (obs[k].read /\ obs[k].called)
    /\ \A k \in DOMAIN obs :
          (obs[k].outcome = "failed" /\ obs[k].changed) =>
              /\ obs[k].wrote
              /\ k = Len(obs) => fs.docs[obs[k].docPath] = Partial

\* a file that failed in the first run, with no output on disk, was generated
\* in the repeated run
C8_Witness ==
    \E k \in DOMAIN obs :
        /\ ~force /\ obs[k].filePath \in prev.failed
        /\ obs[k].inExisted /\ ~obs[k].outExisted
        /\ obs[k].outcome = "generated"
        /\ fs.docs[obs[k].docPath] = Generated(obs[k].filePath)

\* the categories of docs/ that hold at least one markdown file
NonEmptyCategories(fsv) == {c \in fsv.dirs : MarkdownFiles(fsv, c) # {}}

\* C9, as claimed: the index written by generateDocumentationIndex states
\* the number of markdown files under docs/ and the number of categories
\* that hold at least one of them, the categories it lists.
C9_IndexStatistics ==
    index.written =>
        /\ index.totalFiles = Cardinality({dp \in DocPaths : DocExists(fs, dp)})
        /\ index.categories = Cardinality(NonEmptyCategories(fs))
        /\ index.categories = Cardinality(index.sections)

\* the result kind documentMultipleFiles gave an input
KindOf(res, filePath) ==
    IF \E k \in DOMAIN res : res[k].filePath = filePath
    THEN LET r == res[CHOOSE k \in DOMAIN res : res[k].filePath = filePath]
         IN  IF IsFailed(r) THEN "failed"
             ELSE IF IsSkip(r) THEN "skipped" ELSE "generated"
    ELSE "none"

\* another input of the batch has the same output path
SharesOutput(filePath) ==
    \E g \in Range(perm.given) :
        g # filePath /\ DocPathOf(g) = DocPathOf(filePath)

\* C10, as claimed: from the same filesystem, with the same force flag and
\* the same collaborator behaviour per file, documentMultipleFiles gives
\* every input the same result kind and leaves the same content in every
\* output file under docs/, whatever the order of the list.
C10_OrderIndependent ==
    perm.stage = "both" =>
        /\ \A f \in Range(perm.given) :
              KindOf(perm.first.results, f) = KindOf(perm.second.results, f)
        /\ perm.first.fs.docs = perm.second.fs.docs

\* C10, amended: in either order every input gets one result, and every
\* input whose output path no other input of the list shares gets the same
\* result kind and leaves the same content in its output file; the same
\* directories exist afterwards, and no other file under docs/ is touched.
\* (Inputs that share an output path depend on the order: the one processed
\* later finds the other's file.)
C10_OrderIndependentForUnsharedOutputs ==
    perm.stage = "both" =>
        /\ Len(perm.first.results) = Len(perm.given)
        /\ Len(perm.second.results) = Len(perm.given)
        /\ \A f \in Range(perm.given) :
              ~SharesOutput(f) =>
                  /\ KindOf(perm.first.results, f) = KindOf(perm.second.results, f)
                  /\ perm.first.fs.docs[DocPathOf(f)] = perm.second.fs.docs[DocPathOf(f)]
        /\ perm.first.fs.dirs = perm.second.fs.dirs
        /\ perm.first.fs.root = perm.second.fs.root
        /\ \A dp \in DocPaths :
              (\A f \in Range(perm.given) : DocPathOf(f) # dp) =>
                  /\ perm.first.fs.docs[dp] = perm.fs0.docs[dp]
                  /\ perm.second.fs.docs[dp] = perm.fs0.docs[dp]

\* two inputs with different output paths, run in both orders: one was
\* generated and one failed, either way
C10_Witness ==
    /\ perm.stage = "both"
    /\ perm.given # perm.permuted
    /\ \E f, g \in Range(perm.given) :
          /\ ~SharesOutput(f) /\ ~SharesOutput(g)
          /\ KindOf(perm.first.results, f) = "generated"
          /\ KindOf(perm.second.results, f) = "generated"
          /\ KindOf(perm.first.results, g) = "failed"
          /\ KindOf(perm.second.results, g) = "failed"

\* the names of the nine segment rules
SegmentRuleNames ==
    {"components", "api", "hooks", "utils", "types", "lib", "services",
     "middleware", "pages"}

\* a directory segment of the path as given whose name, in any casing, is
\* in names: between separators, or first in a relative path
HasDirSegmentIn(p, names) ==
    \E i \in 1..(Len(p) - 1) :
        /\ LowerAtom(p[i]) \in names
        /\ p[i + 1] \in SepAtoms
        /\ (i = 1 \/ p[i - 1] \in SepAtoms)

\* the final component is the word "page" and a source extension, nothing
\* else
FinalComponentIsPage(p) ==
    /\ Len(p) >= 2
    /\ p[Len(p)] \in {".ts", ".tsx", ".js", ".jsx"}
    /\ LowerAtom(p[Len(p) - 1]) = "page"
    /\ (Len(p) = 2 \/ p[Len(p) - 2] \in SepAtoms)

\* C11, as claimed: for every path that matches none of the nine segment
\* rules, getDocumentationFolder returns "pages" if and only if the path lies
\* in an "app" tree and its final component is literally "page" with a
\* source extension (.ts, .tsx, .js, .jsx); a final component that merely
\* ends in "page", like "homepage.tsx", does not get "pages".
C11_AppPageRule ==
    (folder # <<>> /\ ~HasDirSegmentIn(path, SegmentRuleNames)) =>
        (folder = <<"pages">> <=>
            (HasDirSegmentIn(path, {"app"}) /\ FinalComponentIsPage(path)))

====
